---- MODULE Spec2Model ----
(***************************************************************************)
(* The CrowdFunding campaign contract (CrowdFunding.sol) as a state        *)
(* machine.  One campaign is modelled: its storage fields, its ether       *)
(* balance and the block timestamp.  Every external function is an         *)
(* operator from the campaign's storage, the caller and the arguments to a *)
(* result (the revert reason or ok, the storage after the call, the amount *)
(* paid out); a reverted call leaves the storage as it was.  The actions   *)
(* apply these operators to the variables.                                 *)
(*                                                                         *)
(* Amounts are uint256 in the source; Solidity 0.8 reverts on overflow and *)
(* the amounts of the model stay far below 2^256, so they are plain        *)
(* naturals.  Accounts accept every transfer; outside SpecReentrant they   *)
(* run no code when they are paid.                                         *)
(* The strings name and description have no influence on control flow and  *)
(* are left out of the campaign's storage; a tier keeps its name.  The     *)
(* fundedTier flags are written by fund and read only by the view          *)
(* hasFundedTier; they are kept apart from the campaign's storage, in the  *)
(* variable fundedTier.  The clock is counted from the block of the        *)
(* constructor and moves in whole days, the unit of every deadline.        *)
(*                                                                         *)
(* The factory (CrowdFundingFactory.sol) is a second state machine,        *)
(* SpecFactory: its storage and the campaigns it has deployed, each with   *)
(* the storage of a campaign.  A contract's address is the number of its   *)
(* deployment.  A reverted call of the factory is a step that leaves       *)
(* everything as it was.  On a deployed campaign SpecFactory follows       *)
(* updateCampaignDetails and deleteCampaign; the rest is followed in Spec. *)
(*                                                                         *)
(* Two further state machines look at one campaign more closely.           *)
(* SpecReentrant splits refund at its transfer, where the payee's code     *)
(* runs and may call the campaign again, and keeps account of the ether    *)
(* each account paid in and got back.  SpecTiers adds the fundedTier flags *)
(* and, for each tier, the accounts that funded it.                        *)
(***************************************************************************)
EXTENDS Naturals, Sequences, FiniteSets

\* ------------------------------------------------------------------ bounds
Accounts == {"a1", "a2"}
Owners == {"a1"}        \* the _owner the constructor is given
TierNames == {"Gold"}
Amounts == {0, 1, 2}    \* tier amounts offered to the contract
Payments == {0, 1, 2, 3} \* msg.value offered to fund
Goals == {0, 1, 2}      \* goals offered to the contract
Days == {0, 1}          \* durations and extensions offered to the contract
MaxTiers == 2           \* at most this many tiers are kept
MaxContribution == 2    \* cap on the sum of the recorded contributions
MaxBackers == 2         \* cap on the sum of the tiers' backers counters
MaxDays == 1            \* the clock and the deadline stop after this many days
MaxCampaigns == 2       \* the factory deploys at most this many campaigns
CampaignNames == {"Alpha"}
Deployers == {"a1"}     \* the account that deploys the factory
FactoryGoals == {0, 1}  \* goals offered to createCampaign

OneDay == 86400

\* --------------------------------------------------------- source constants
Active == "Active"
Successful == "Successful"
Failed == "Failed"
CampaignState == {Active, Successful, Failed}

OK == "ok"
NotOwner == "You're not the owner"
CampaignPaused == "Contract is paused"
CampaignNotActive == "Campaign is not active"
CampaignDeleted == "Campaign has been deleted"
InvalidTier == "Invalid Tier"
IncorrectAmount == "Incorrect Amount"
CampaignNotSuccessful == "Campaign not successful"
NoBalance == "No balance to withdraw"
NoContribution == "No contributions"
InvalidGoal == "Goal must be > 0"
NoFunds == "No funds available"
InvalidAmount == "Amount must be greater than 0"
TierNotFound == "Tier doesn't exist"
TransferFailed == "transfer failed"
FactoryNotOwner == "Not Owner"
FactoryPaused == " Factory is Paused"
CampaignNotFound == "Campaign not found"
NotCampaignOwner == "Not campaign owner"

\* address(this) of the factory: the msg.sender of the calls it makes.
FactoryAddress == "factory"

VARIABLES goal, deadline, owner, paused, deleted, state, tiers, backers,
          balance, now, tx,
          factoryOwner, factoryPaused, campaigns, userCampaigns, deployed,
          frames, funded, refunded,
          fundedTier, tierFunders

\* The campaign of Spec.
campaignVars == <<goal, deadline, owner, paused, deleted, state, tiers,
                  backers, balance, tx>>

\* The factory's storage and the storage of the campaigns it deployed.
factoryVars == <<factoryOwner, factoryPaused, campaigns, userCampaigns, deployed>>

\* The refund() calls whose payout is under way (SpecReentrant), and the
\* ether each account has paid in through fund() and got back from refund().
callVars == <<frames, funded, refunded>>

\* backers[a].fundedTier (SpecTiers), and for each tier the accounts that
\* funded it.
flagVars == <<fundedTier, tierFunders>>

vars == <<goal, deadline, owner, paused, deleted, state, tiers, backers,
          balance, now, tx,
          factoryOwner, factoryPaused, campaigns, userCampaigns, deployed,
          frames, funded, refunded,
          fundedTier, tierFunders>>

\* No call is under way and no ether has moved; no tier has been funded.
NoCalls ==
  /\ frames = <<>>
  /\ funded = [a \in Accounts |-> 0]
  /\ refunded = [a \in Accounts |-> 0]
NoFlags ==
  /\ fundedTier = [a \in Accounts |-> {}]
  /\ tierFunders = <<>>

\* The campaign's storage and ether balance as one value.
Campaign ==
  [goal |-> goal, deadline |-> deadline, owner |-> owner, paused |-> paused,
   deleted |-> deleted, state |-> state, tiers |-> tiers, backers |-> backers,
   balance |-> balance]

Tier(n, a, b) == [name |-> n, amount |-> a, backers |-> b]

\* A call's outcome: the revert reason (or OK), the campaign after the call
\* and the ether the campaign paid out.
Revert(c, reason) == [err |-> reason, c |-> c, paid |-> 0]
Return(c, amount) == [err |-> OK, c |-> c, paid |-> amount]

\* ---------------------------------------------------------------- modifiers
onlyOwner_Anyone(c, sender) == TRUE
onlyOwner(c, sender) == sender = c.owner
notPaused_Always(c) == TRUE
notPaused(c) == ~c.paused
\* campaignOpen without its require.
campaignOpen_Always(c) == TRUE
campaignOpen(c) == c.state = Active
notDeleted(c) == ~c.deleted

\* ------------------------------------------------------------------ helpers
\* checkAndUpdateCampaign without the test that the campaign is still Active.
checkAndUpdateCampaign_NoGuard(c, t) ==
  LET newState ==
        IF t >= c.deadline
        THEN (IF c.balance >= c.goal THEN Successful ELSE Failed)
        ELSE (IF c.balance >= c.goal THEN Successful ELSE Active)
  IN IF newState # c.state THEN [c EXCEPT !.state = newState] ELSE c

\* checkAndUpdateCampaign failing every campaign whose deadline has passed.
checkAndUpdateCampaign_DeadlineFirst(c, t) ==
  IF c.state = Active
  THEN LET newState ==
             IF t >= c.deadline THEN Failed
             ELSE (IF c.balance >= c.goal THEN Successful ELSE Active)
       IN IF newState # c.state THEN [c EXCEPT !.state = newState] ELSE c
  ELSE c

checkAndUpdateCampaign(c, t) ==
  IF c.state = Active
  THEN LET newState ==
             IF t >= c.deadline
             THEN (IF c.balance >= c.goal THEN Successful ELSE Failed)
             ELSE (IF c.balance >= c.goal THEN Successful ELSE Active)
       IN IF newState # c.state THEN [c EXCEPT !.state = newState] ELSE c
  ELSE c

\* payable(to).transfer(amount): reverts when the campaign holds less.
CanTransfer(c, amount) == amount <= c.balance

\* ------------------------------------------------------------ core functions
\* fund accepting any payment that covers the tier's amount.
fund_AtLeast(c, sender, value, tierIndex, t) ==
  IF ~campaignOpen(c) THEN Revert(c, CampaignNotActive)
  ELSE IF ~notPaused(c) THEN Revert(c, CampaignPaused)
  ELSE IF ~notDeleted(c) THEN Revert(c, CampaignDeleted)
  ELSE IF ~(tierIndex < Len(c.tiers)) THEN Revert(c, InvalidTier)
  ELSE IF ~(value >= c.tiers[tierIndex + 1].amount) THEN Revert(c, IncorrectAmount)
  ELSE LET c1 == [c EXCEPT !.balance = @ + value,
                           !.tiers[tierIndex + 1].backers = @ + 1,
                           !.backers[sender] = @ + value]
       IN Return(checkAndUpdateCampaign(c1, t), 0)

\* fund without its closing checkAndUpdateCampaign().
fund_NoResolve(c, sender, value, tierIndex, t) ==
  IF ~campaignOpen(c) THEN Revert(c, CampaignNotActive)
  ELSE IF ~notPaused(c) THEN Revert(c, CampaignPaused)
  ELSE IF ~notDeleted(c) THEN Revert(c, CampaignDeleted)
  ELSE IF ~(tierIndex < Len(c.tiers)) THEN Revert(c, InvalidTier)
  ELSE IF ~(value = c.tiers[tierIndex + 1].amount) THEN Revert(c, IncorrectAmount)
  ELSE LET c1 == [c EXCEPT !.balance = @ + value,
                           !.tiers[tierIndex + 1].backers = @ + 1,
                           !.backers[sender] = @ + value]
       IN Return(c1, 0)

fund(c, sender, value, tierIndex, t) ==
  IF ~campaignOpen(c) THEN Revert(c, CampaignNotActive)
  ELSE IF ~notPaused(c) THEN Revert(c, CampaignPaused)
  ELSE IF ~notDeleted(c) THEN Revert(c, CampaignDeleted)
  ELSE IF ~(tierIndex < Len(c.tiers)) THEN Revert(c, InvalidTier)
  ELSE IF ~(value = c.tiers[tierIndex + 1].amount) THEN Revert(c, IncorrectAmount)
  ELSE LET c1 == [c EXCEPT !.balance = @ + value,
                           !.tiers[tierIndex + 1].backers = @ + 1,
                           !.backers[sender] = @ + value]
       IN Return(checkAndUpdateCampaign(c1, t), 0)

\* withdraw with the notPaused modifier added.
withdraw_NotPaused(c, sender, t) ==
  IF ~onlyOwner(c, sender) THEN Revert(c, NotOwner)
  ELSE IF ~notPaused(c) THEN Revert(c, CampaignPaused)
  ELSE IF ~notDeleted(c) THEN Revert(c, CampaignDeleted)
  ELSE LET c1 == checkAndUpdateCampaign(c, t)
       IN IF ~(c1.state = Successful) THEN Revert(c, CampaignNotSuccessful)
          ELSE IF ~(c1.balance > 0) THEN Revert(c, NoBalance)
          ELSE Return([c1 EXCEPT !.balance = 0], c1.balance)

\* withdraw that also clears every backer's record.
withdraw_ClearContributions(c, sender, t) ==
  IF ~onlyOwner(c, sender) THEN Revert(c, NotOwner)
  ELSE IF ~notDeleted(c) THEN Revert(c, CampaignDeleted)
  ELSE LET c1 == checkAndUpdateCampaign(c, t)
       IN IF ~(c1.state = Successful) THEN Revert(c, CampaignNotSuccessful)
          ELSE IF ~(c1.balance > 0) THEN Revert(c, NoBalance)
          ELSE Return([c1 EXCEPT !.balance = 0,
                                 !.backers = [a \in Accounts |-> 0]], c1.balance)

\* withdraw whose failing require keeps what checkAndUpdateCampaign stored.
withdraw_KeepResolved(c, sender, t) ==
  IF ~onlyOwner(c, sender) THEN Revert(c, NotOwner)
  ELSE IF ~notDeleted(c) THEN Revert(c, CampaignDeleted)
  ELSE LET c1 == checkAndUpdateCampaign(c, t)
       IN IF ~(c1.state = Successful) THEN Revert(c1, CampaignNotSuccessful)
          ELSE IF ~(c1.balance > 0) THEN Revert(c1, NoBalance)
          ELSE Return([c1 EXCEPT !.balance = 0], c1.balance)

withdraw(c, sender, t) ==
  IF ~onlyOwner(c, sender) THEN Revert(c, NotOwner)
  ELSE IF ~notDeleted(c) THEN Revert(c, CampaignDeleted)
  ELSE LET c1 == checkAndUpdateCampaign(c, t)
       IN IF ~(c1.state = Successful) THEN Revert(c, CampaignNotSuccessful)
          ELSE IF ~(c1.balance > 0) THEN Revert(c, NoBalance)
          ELSE Return([c1 EXCEPT !.balance = 0], c1.balance)

\* refund open to a Failed campaign only.
refund_OnlyFailed(c, sender, t) ==
  IF ~notDeleted(c) THEN Revert(c, CampaignDeleted)
  ELSE LET c1 == checkAndUpdateCampaign(c, t)
           amount == c1.backers[sender]
       IN IF ~(c1.state = Failed) THEN Revert(c, CampaignNotActive)
          ELSE IF ~(amount > 0) THEN Revert(c, NoContribution)
          ELSE IF ~CanTransfer(c1, amount) THEN Revert(c, TransferFailed)
          ELSE Return([c1 EXCEPT !.backers[sender] = 0,
                                 !.balance = @ - amount], amount)

\* refund paying out without clearing the caller's record.
refund_NoClear(c, sender, t) ==
  IF ~notDeleted(c) THEN Revert(c, CampaignDeleted)
  ELSE LET c1 == checkAndUpdateCampaign(c, t)
           amount == c1.backers[sender]
       IN IF ~(amount > 0) THEN Revert(c, NoContribution)
          ELSE IF ~CanTransfer(c1, amount) THEN Revert(c, TransferFailed)
          ELSE Return([c1 EXCEPT !.balance = @ - amount], amount)

\* refund without its opening checkAndUpdateCampaign().
refund_NoResolve(c, sender, t) ==
  IF ~notDeleted(c) THEN Revert(c, CampaignDeleted)
  ELSE LET amount == c.backers[sender]
       IN IF ~(amount > 0) THEN Revert(c, NoContribution)
          ELSE IF ~CanTransfer(c, amount) THEN Revert(c, TransferFailed)
          ELSE Return([c EXCEPT !.backers[sender] = 0,
                                !.balance = @ - amount], amount)

refund(c, sender, t) ==
  IF ~notDeleted(c) THEN Revert(c, CampaignDeleted)
  ELSE LET c1 == checkAndUpdateCampaign(c, t)
           amount == c1.backers[sender]
       IN IF ~(amount > 0) THEN Revert(c, NoContribution)
          ELSE IF ~CanTransfer(c1, amount) THEN Revert(c, TransferFailed)
          ELSE Return([c1 EXCEPT !.backers[sender] = 0,
                                 !.balance = @ - amount], amount)

updateCampaignDetails(c, sender, newGoal) ==
  IF ~onlyOwner(c, sender) THEN Revert(c, NotOwner)
  ELSE IF ~notDeleted(c) THEN Revert(c, CampaignDeleted)
  ELSE IF ~campaignOpen(c) THEN Revert(c, CampaignNotActive)
  ELSE IF ~(newGoal > 0) THEN Revert(c, InvalidGoal)
  ELSE Return([c EXCEPT !.goal = newGoal], 0)

deleteCampaign_Again(c, sender) ==
  IF ~onlyOwner(c, sender) THEN Revert(c, NotOwner)
  ELSE Return([c EXCEPT !.deleted = TRUE, !.state = Failed], 0)

deleteCampaign(c, sender) ==
  IF ~onlyOwner(c, sender) THEN Revert(c, NotOwner)
  ELSE IF ~notDeleted(c) THEN Revert(c, CampaignDeleted)
  ELSE Return([c EXCEPT !.deleted = TRUE, !.state = Failed], 0)

\* emergencyWithdraw whose payout is not taken off the balance.
emergencyWithdraw_KeepBalance(c, sender) ==
  IF ~onlyOwner(c, sender) THEN Revert(c, NotOwner)
  ELSE IF ~(c.balance > 0) THEN Revert(c, NoFunds)
  ELSE Return(c, c.balance)

emergencyWithdraw_NotDeleted(c, sender) ==
  IF ~onlyOwner(c, sender) THEN Revert(c, NotOwner)
  ELSE IF ~notDeleted(c) THEN Revert(c, CampaignDeleted)
  ELSE IF ~(c.balance > 0) THEN Revert(c, NoFunds)
  ELSE Return([c EXCEPT !.balance = 0], c.balance)

emergencyWithdraw(c, sender) ==
  IF ~onlyOwner(c, sender) THEN Revert(c, NotOwner)
  ELSE IF ~(c.balance > 0) THEN Revert(c, NoFunds)
  ELSE Return([c EXCEPT !.balance = 0], c.balance)

addTier(c, sender, tierName, amount) ==
  IF ~onlyOwner(c, sender) THEN Revert(c, NotOwner)
  ELSE IF ~notDeleted(c) THEN Revert(c, CampaignDeleted)
  ELSE IF ~(amount > 0) THEN Revert(c, InvalidAmount)
  ELSE Return([c EXCEPT !.tiers = Append(@, Tier(tierName, amount, 0))], 0)

\* tiers[_index] = tiers[tiers.length - 1]; tiers.pop();
SwapAndPop(s, index) ==
  SubSeq([s EXCEPT ![index + 1] = s[Len(s)]], 1, Len(s) - 1)

removeTier(c, sender, index) ==
  IF ~onlyOwner(c, sender) THEN Revert(c, NotOwner)
  ELSE IF ~notDeleted(c) THEN Revert(c, CampaignDeleted)
  ELSE IF ~(index < Len(c.tiers)) THEN Revert(c, TierNotFound)
  ELSE Return([c EXCEPT !.tiers = SwapAndPop(@, index)], 0)

togglePause(c, sender) ==
  IF ~onlyOwner(c, sender) THEN Revert(c, NotOwner)
  ELSE Return([c EXCEPT !.paused = ~@], 0)

extendDeadline(c, sender, extendedDays) ==
  IF ~onlyOwner(c, sender) THEN Revert(c, NotOwner)
  ELSE IF ~campaignOpen(c) THEN Revert(c, CampaignNotActive)
  ELSE IF ~notDeleted(c) THEN Revert(c, CampaignDeleted)
  ELSE Return([c EXCEPT !.deadline = @ + extendedDays * OneDay], 0)

getCampaignStatus_NoDeleted(c, t) ==
  IF c.state = Active /\ t < c.deadline
  THEN (IF c.balance >= c.goal THEN Successful ELSE Active)
  ELSE c.state

getCampaignStatus(c, t) ==
  IF c.deleted THEN Failed
  ELSE IF c.state = Active /\ t < c.deadline
       THEN (IF c.balance >= c.goal THEN Successful ELSE Active)
       ELSE c.state

\* The events a transaction leaves in the log: those emitted on its way,
\* none when it reverts.
CampaignStateChanged == "CampaignStateChanged"
FundsWithdrawn == "FundsWithdrawn"
RefundIssued == "RefundIssued"

checkAndUpdateCampaignEvents(c, t) ==
  IF checkAndUpdateCampaign(c, t).state # c.state THEN <<CampaignStateChanged>> ELSE <<>>

withdrawEvents(c, sender, t) ==
  IF withdraw(c, sender, t).err # OK THEN <<>>
  ELSE checkAndUpdateCampaignEvents(c, t) \o <<FundsWithdrawn>>

refundEvents(c, sender, t) ==
  IF refund(c, sender, t).err # OK THEN <<>>
  ELSE checkAndUpdateCampaignEvents(c, t) \o <<RefundIssued>>

\* The indexes of the tiers, counted from 0 as in the source.
TierIndexes == 0..(Len(tiers) - 1)

\* ------------------------------------------------------------------ actions
\* A reverted call changes nothing on chain: an action is a call that
\* succeeds.  tx is the ether-moving transaction (fund, withdraw, refund,
\* emergencyWithdraw) that led to the current state, with the ether it paid
\* out; a step of time or of another function carries none.
PaymentOps == {"fund", "withdraw", "refund", "emergencyWithdraw"}
NoTx == [op |-> "none", paid |-> 0]
Tx(op, sender, r) == IF op \in PaymentOps THEN [op |-> op, paid |-> r.paid] ELSE NoTx

RECURSIVE SumOver(_, _)
SumOver(f, S) ==
  IF S = {} THEN 0
  ELSE LET x == CHOOSE y \in S : TRUE IN f[x] + SumOver(f, S \ {x})

\* Everything the backers have on record.
TotalContributions(c) == SumOver(c.backers, Accounts)

\* The backers counters of all tiers together.
TotalBackers(c) ==
  SumOver([i \in 1..Len(c.tiers) |-> c.tiers[i].backers], 1..Len(c.tiers))

\* The model keeps the campaign within its bounds.
InBounds(c) ==
  /\ Len(c.tiers) <= MaxTiers
  /\ TotalContributions(c) <= MaxContribution
  /\ TotalBackers(c) <= MaxBackers
  /\ c.deadline <= MaxDays * OneDay

\* A successful call's effects become the new state.
Commit(op, sender, r) ==
  \E res \in {r} :
    /\ res.err = OK
    /\ InBounds(res.c)
    /\ goal' = res.c.goal
    /\ deadline' = res.c.deadline
    /\ owner' = res.c.owner
    /\ paused' = res.c.paused
    /\ deleted' = res.c.deleted
    /\ state' = res.c.state
    /\ tiers' = res.c.tiers
    /\ backers' = res.c.backers
    /\ balance' = res.c.balance
    /\ tx' = Tx(op, sender, res)
    /\ UNCHANGED now
    /\ UNCHANGED <<factoryVars, callVars, flagVars>>

\* constructor(_owner, _name, _description, _goal, _duration)
Init ==
  /\ now = 0
  /\ owner \in Owners
  /\ goal \in Goals
  /\ \E duration \in Days : deadline = now + duration * OneDay
  /\ state = Active
  /\ deleted = FALSE
  /\ paused = FALSE
  /\ tiers = <<>>
  /\ backers = [a \in Accounts |-> 0]
  /\ balance = 0
  /\ tx = NoTx
  /\ factoryOwner \in Deployers
  /\ factoryPaused = FALSE
  /\ campaigns = <<>>
  /\ userCampaigns = [a \in Accounts |-> <<>>]
  /\ deployed = <<>>
  /\ NoCalls
  /\ NoFlags

Fund ==
  \E sender \in Accounts, value \in Payments, i \in 0..MaxTiers :
    Commit("fund", sender, fund(Campaign, sender, value, i, now))

Withdraw ==
  \E sender \in Accounts : Commit("withdraw", sender, withdraw(Campaign, sender, now))

Refund ==
  \E sender \in Accounts : Commit("refund", sender, refund(Campaign, sender, now))

UpdateCampaignDetails ==
  \E sender \in Accounts, g \in Goals :
    Commit("updateCampaignDetails", sender, updateCampaignDetails(Campaign, sender, g))

DeleteCampaign ==
  \E sender \in Accounts :
    Commit("deleteCampaign", sender, deleteCampaign(Campaign, sender))

EmergencyWithdraw ==
  \E sender \in Accounts :
    Commit("emergencyWithdraw", sender, emergencyWithdraw(Campaign, sender))

AddTier ==
  \E sender \in Accounts, n \in TierNames, a \in Amounts :
    Commit("addTier", sender, addTier(Campaign, sender, n, a))

RemoveTier ==
  \E sender \in Accounts, i \in 0..MaxTiers :
    Commit("removeTier", sender, removeTier(Campaign, sender, i))

TogglePause ==
  \E sender \in Accounts :
    Commit("togglePause", sender, togglePause(Campaign, sender))

ExtendDeadline ==
  \E sender \in Accounts, d \in Days :
    Commit("extendDeadline", sender, extendDeadline(Campaign, sender, d))

\* block.timestamp moves on between transactions.
Tick ==
  /\ now + OneDay <= MaxDays * OneDay
  /\ now' = now + OneDay
  /\ tx' = NoTx
  /\ UNCHANGED <<goal, deadline, owner, paused, deleted, state, tiers,
                 backers, balance>>
  /\ UNCHANGED <<factoryVars, callVars, flagVars>>

Next ==
  \/ Fund
  \/ Withdraw
  \/ Refund
  \/ UpdateCampaignDetails
  \/ DeleteCampaign
  \/ EmergencyWithdraw
  \/ AddTier
  \/ RemoveTier
  \/ TogglePause
  \/ ExtendDeadline
  \/ Tick

Spec == Init /\ [][Next]_vars

\* ================================================================== factory
\* CrowdFunding's constructor, as the factory invokes it at time t.
constructor(_owner, _goal, _duration, t) ==
  [goal |-> _goal, deadline |-> t + _duration * OneDay, owner |-> _owner,
   paused |-> FALSE, deleted |-> FALSE, state |-> Active, tiers |-> <<>>,
   backers |-> [a \in Accounts |-> 0], balance |-> 0]

\* The factory's storage, with the campaigns it deployed, as one value.
Factory ==
  [owner |-> factoryOwner, paused |-> factoryPaused, campaigns |-> campaigns,
   userCampaigns |-> userCampaigns, deployed |-> deployed]

\* struct Campaign of the factory.
CampaignRecord(addr, creator, n, t) ==
  [campaignAddress |-> addr, owner |-> creator, name |-> n, creationTime |-> t]

\* A call's outcome: the revert reason (or OK) and the factory after it.
FactoryRevert(f, reason) == [err |-> reason, f |-> f]
FactoryReturn(f) == [err |-> OK, f |-> f]

factoryOnlyOwner(f, sender) == sender = f.owner
factoryNotPaused(f) == ~f.paused

createCampaign_WhilePaused(f, sender, _name, _goal, _duration, t) ==
  LET newCampaign == constructor(sender, _goal, _duration, t)
      campaignAddress == Len(f.deployed) + 1
      campaign == CampaignRecord(campaignAddress, sender, _name, t)
  IN FactoryReturn([f EXCEPT !.deployed = Append(@, newCampaign),
                             !.campaigns = Append(@, campaign),
                             !.userCampaigns[sender] = Append(@, campaign)])

createCampaign_NoUserList(f, sender, _name, _goal, _duration, t) ==
  IF ~factoryNotPaused(f) THEN FactoryRevert(f, FactoryPaused)
  ELSE LET newCampaign == constructor(sender, _goal, _duration, t)
           campaignAddress == Len(f.deployed) + 1
           campaign == CampaignRecord(campaignAddress, sender, _name, t)
       IN FactoryReturn([f EXCEPT !.deployed = Append(@, newCampaign),
                                  !.campaigns = Append(@, campaign)])

createCampaign(f, sender, _name, _goal, _duration, t) ==
  IF ~factoryNotPaused(f) THEN FactoryRevert(f, FactoryPaused)
  ELSE LET newCampaign == constructor(sender, _goal, _duration, t)
           campaignAddress == Len(f.deployed) + 1
           campaign == CampaignRecord(campaignAddress, sender, _name, t)
       IN FactoryReturn([f EXCEPT !.deployed = Append(@, newCampaign),
                                  !.campaigns = Append(@, campaign),
                                  !.userCampaigns[sender] = Append(@, campaign)])

getUserCampaigns(f, _user) == f.userCampaigns[_user]

getAllCampaigns(f) == f.campaigns

factoryTogglePause(f, sender) ==
  IF ~factoryOnlyOwner(f, sender) THEN FactoryRevert(f, FactoryNotOwner)
  ELSE FactoryReturn([f EXCEPT !.paused = ~@])

\* The campaign the factory calls out to holds msg.sender = the factory.
deleteCampaignFromFactory(f, sender, _campaignAddr) ==
  LET found == {i \in 1..Len(f.campaigns) :
                  f.campaigns[i].campaignAddress = _campaignAddr}
      exists == found # {}
  IN IF ~exists THEN FactoryRevert(f, CampaignNotFound)
     ELSE LET idx == CHOOSE i \in found : \A j \in found : i <= j
          IN IF ~(sender = f.campaigns[idx].owner)
             THEN FactoryRevert(f, NotCampaignOwner)
             ELSE LET r == deleteCampaign(f.deployed[_campaignAddr], FactoryAddress)
                  IN IF r.err # OK THEN FactoryRevert(f, r.err)
                     ELSE FactoryReturn([f EXCEPT !.deployed[_campaignAddr] = r.c])

\* ---------------------------------------------------------- factory actions
\* The outcome of a call of the factory becomes the new state; a reverted
\* call leaves the factory as it was.
FactoryCommit(r) ==
  \E res \in {r} :
    /\ Len(res.f.campaigns) <= MaxCampaigns
    /\ \A a \in 1..Len(res.f.deployed) : InBounds(res.f.deployed[a])
    /\ factoryOwner' = res.f.owner
    /\ factoryPaused' = res.f.paused
    /\ campaigns' = res.f.campaigns
    /\ userCampaigns' = res.f.userCampaigns
    /\ deployed' = res.f.deployed
    /\ UNCHANGED now
    /\ UNCHANGED <<campaignVars, callVars, flagVars>>

\* A call of a deployed campaign that does not revert.
DeployedCommit(addr, r) ==
  \E res \in {r} :
    /\ res.err = OK
    /\ InBounds(res.c)
    /\ deployed' = [deployed EXCEPT ![addr] = res.c]
    /\ UNCHANGED <<factoryOwner, factoryPaused, campaigns, userCampaigns>>
    /\ UNCHANGED now
    /\ UNCHANGED <<campaignVars, callVars, flagVars>>

\* The factory's constructor; no campaign of Spec is looked at.
FactoryInit ==
  /\ now = 0
  /\ factoryOwner \in Deployers
  /\ factoryPaused = FALSE
  /\ campaigns = <<>>
  /\ userCampaigns = [a \in Accounts |-> <<>>]
  /\ deployed = <<>>
  /\ NoCalls
  /\ NoFlags
  /\ owner \in Owners
  /\ goal = 0
  /\ deadline = 0
  /\ state = Active
  /\ deleted = FALSE
  /\ paused = FALSE
  /\ tiers = <<>>
  /\ backers = [a \in Accounts |-> 0]
  /\ balance = 0
  /\ tx = NoTx

CreateCampaign ==
  \E sender \in Accounts, n \in CampaignNames, g \in FactoryGoals, d \in Days :
    FactoryCommit(createCampaign(Factory, sender, n, g, d, now))

FactoryTogglePause ==
  \E sender \in Accounts : FactoryCommit(factoryTogglePause(Factory, sender))

DeleteCampaignFromFactory ==
  \E sender \in Accounts, addr \in 1..(MaxCampaigns + 1) :
    FactoryCommit(deleteCampaignFromFactory(Factory, sender, addr))

DeployedUpdateCampaignDetails ==
  \E addr \in 1..Len(deployed), sender \in Accounts, g \in FactoryGoals :
    DeployedCommit(addr, updateCampaignDetails(deployed[addr], sender, g))

DeployedDeleteCampaign ==
  \E addr \in 1..Len(deployed), sender \in Accounts :
    DeployedCommit(addr, deleteCampaign(deployed[addr], sender))

FactoryTick ==
  /\ now + OneDay <= MaxDays * OneDay
  /\ now' = now + OneDay
  /\ UNCHANGED <<factoryVars, campaignVars, callVars, flagVars>>

FactoryNext ==
  \/ CreateCampaign
  \/ FactoryTogglePause
  \/ DeleteCampaignFromFactory
  \/ DeployedUpdateCampaignDetails
  \/ DeployedDeleteCampaign
  \/ FactoryTick

SpecFactory == FactoryInit /\ [][FactoryNext]_vars

\* =============================================================== reentrancy
\* payable(msg.sender).transfer(amount) hands control to the payee, whose
\* code may call the campaign again before the transfer returns.  frames is
\* the stack of refund() calls whose transfer is under way, the payee of the
\* innermost one last.
MaxDepth == 2

\* refund() on both sides of its transfer.
Call == "call"          \* the statements up to the transfer, and the transfer
Resume == "resume"      \* the statements after the transfer has returned

\* refund that pays first and clears the caller's record afterwards.
refundStep_PayFirst(c, sender, t, phase) ==
  IF phase = Call
  THEN IF ~notDeleted(c) THEN Revert(c, CampaignDeleted)
       ELSE LET c1 == checkAndUpdateCampaign(c, t)
                amount == c1.backers[sender]
            IN IF ~(amount > 0) THEN Revert(c, NoContribution)
               ELSE IF ~CanTransfer(c1, amount) THEN Revert(c, TransferFailed)
               ELSE Return([c1 EXCEPT !.balance = @ - amount], amount)
  ELSE Return([c EXCEPT !.backers[sender] = 0], 0)

refundStep(c, sender, t, phase) ==
  IF phase = Call THEN refund(c, sender, t) ELSE Return(c, 0)

\* Who can call next: anyone between transactions, the payee of the
\* innermost transfer while one is under way.
Callers == IF frames = <<>> THEN Accounts ELSE {frames[Len(frames)].payee}

Frame(sender, amount) == [payee |-> sender, amount |-> amount]

\* A call that does not revert, made between or within transactions.
NestedCommit(op, sender, r) ==
  \E res \in {r} :
    /\ res.err = OK
    /\ InBounds(res.c)
    /\ goal' = res.c.goal
    /\ deadline' = res.c.deadline
    /\ owner' = res.c.owner
    /\ paused' = res.c.paused
    /\ deleted' = res.c.deleted
    /\ state' = res.c.state
    /\ tiers' = res.c.tiers
    /\ backers' = res.c.backers
    /\ balance' = res.c.balance
    /\ tx' = Tx(op, sender, res)
    /\ UNCHANGED now
    /\ UNCHANGED <<factoryVars, flagVars>>

ReentrantInit ==
  /\ now = 0
  /\ owner \in Owners
  /\ goal \in Goals
  /\ \E duration \in Days : deadline = now + duration * OneDay
  /\ state = Active
  /\ deleted = FALSE
  /\ paused = FALSE
  /\ tiers = <<>>
  /\ backers = [a \in Accounts |-> 0]
  /\ balance = 0
  /\ tx = NoTx
  /\ factoryOwner \in Deployers
  /\ factoryPaused = FALSE
  /\ campaigns = <<>>
  /\ userCampaigns = [a \in Accounts |-> <<>>]
  /\ deployed = <<>>
  /\ NoCalls
  /\ NoFlags

NestedAddTier ==
  \E sender \in Callers, n \in TierNames, a \in Amounts :
    /\ NestedCommit("addTier", sender, addTier(Campaign, sender, n, a))
    /\ UNCHANGED callVars

NestedFund ==
  \E sender \in Callers, value \in Payments, i \in 0..MaxTiers :
    /\ funded[sender] + value <= MaxContribution
    /\ NestedCommit("fund", sender, fund(Campaign, sender, value, i, now))
    /\ funded' = [funded EXCEPT ![sender] = @ + value]
    /\ UNCHANGED <<frames, refunded>>

\* refund() runs up to its transfer: the payee holds the ether and control.
RefundCall ==
  \E sender \in Callers :
    LET r == refundStep(Campaign, sender, now, Call)
    IN /\ Len(frames) < MaxDepth
       /\ NestedCommit("refund", sender, r)
       /\ frames' = Append(frames, Frame(sender, r.paid))
       /\ refunded' = [refunded EXCEPT ![sender] = @ + r.paid]
       /\ UNCHANGED funded

\* The payee's code returns and the innermost refund() runs to its end.
RefundResume ==
  /\ frames # <<>>
  /\ LET top == frames[Len(frames)]
     IN NestedCommit("none", top.payee, refundStep(Campaign, top.payee, now, Resume))
  /\ frames' = SubSeq(frames, 1, Len(frames) - 1)
  /\ UNCHANGED <<funded, refunded>>

ReentrantTick ==
  /\ frames = <<>>
  /\ now + OneDay <= MaxDays * OneDay
  /\ now' = now + OneDay
  /\ tx' = NoTx
  /\ UNCHANGED <<goal, deadline, owner, paused, deleted, state, tiers,
                 backers, balance>>
  /\ UNCHANGED <<factoryVars, callVars, flagVars>>

ReentrantNext ==
  \/ NestedAddTier
  \/ NestedFund
  \/ RefundCall
  \/ RefundResume
  \/ ReentrantTick

SpecReentrant == ReentrantInit /\ [][ReentrantNext]_vars

\* =============================================================== tier flags
\* backers[a].fundedTier, a mapping from tier index to bool, is kept as the
\* set of the indexes mapped to true.  tierFunders follows the tiers
\* themselves: for each tier, the accounts whose fund() went to it; it moves
\* with its tier when removeTier moves the tier.

\* backers[msg.sender].fundedTier[_tierIndex] = true;
setFundedTier(ft, sender, tierIndex) == [ft EXCEPT ![sender] = @ \cup {tierIndex}]

hasFundedTier(ft, _backer, _tierIndex) == _tierIndex \in ft[_backer]

\* A call that does not revert, with the flags it leaves.
TierCommit(op, sender, r, ft, funders) ==
  \E res \in {r} :
    /\ res.err = OK
    /\ InBounds(res.c)
    /\ goal' = res.c.goal
    /\ deadline' = res.c.deadline
    /\ owner' = res.c.owner
    /\ paused' = res.c.paused
    /\ deleted' = res.c.deleted
    /\ state' = res.c.state
    /\ tiers' = res.c.tiers
    /\ backers' = res.c.backers
    /\ balance' = res.c.balance
    /\ tx' = Tx(op, sender, res)
    /\ fundedTier' = ft
    /\ tierFunders' = funders
    /\ UNCHANGED now
    /\ UNCHANGED <<factoryVars, callVars>>

TiersInit ==
  /\ now = 0
  /\ owner \in Owners
  /\ goal \in Goals
  /\ \E duration \in Days : deadline = now + duration * OneDay
  /\ state = Active
  /\ deleted = FALSE
  /\ paused = FALSE
  /\ tiers = <<>>
  /\ backers = [a \in Accounts |-> 0]
  /\ balance = 0
  /\ tx = NoTx
  /\ factoryOwner \in Deployers
  /\ factoryPaused = FALSE
  /\ campaigns = <<>>
  /\ userCampaigns = [a \in Accounts |-> <<>>]
  /\ deployed = <<>>
  /\ NoCalls
  /\ NoFlags

TiersAddTier ==
  \E sender \in Accounts, n \in TierNames, a \in Amounts :
    TierCommit("addTier", sender, addTier(Campaign, sender, n, a),
               fundedTier, Append(tierFunders, {}))

TiersFund ==
  \E sender \in Accounts, i \in TierIndexes :
    TierCommit("fund", sender, fund(Campaign, sender, tiers[i + 1].amount, i, now),
               setFundedTier(fundedTier, sender, i),
               [tierFunders EXCEPT ![i + 1] = @ \cup {sender}])

TiersRemoveTier ==
  \E sender \in Accounts, i \in TierIndexes :
    TierCommit("removeTier", sender, removeTier(Campaign, sender, i),
               fundedTier, SwapAndPop(tierFunders, i))

TiersRefund ==
  \E sender \in Accounts :
    TierCommit("refund", sender, refund(Campaign, sender, now),
               fundedTier, tierFunders)

TiersNext ==
  \/ TiersAddTier
  \/ TiersFund
  \/ TiersRemoveTier
  \/ TiersRefund

SpecTiers == TiersInit /\ [][TiersNext]_vars

\* =================================================================== claims
\* Helpers of the claims.
Occurrences(s, x) == Cardinality({k \in 1..Len(s) : s[k] = x})

\* The state the design's resolve() stores: the goal is tested first, the
\* deadline second, and only an Active campaign is re-evaluated.
Resolved(st, bal, g, t, d) ==
  IF st # Active THEN st
  ELSE IF bal >= g THEN Successful
  ELSE IF t >= d THEN Failed
  ELSE Active

\* C1: after deleteCampaign() has succeeded, every backer whose contribution
\* is on record can successfully refund() and is paid that contribution, as
\* long as the campaign still holds it.  (No call changes a contribution once
\* deleted is set, so the record is the one from before the delete.)
C1_DeleteEnablesRefund ==
  deleted =>
    \A a \in Accounts :
      (backers[a] > 0 /\ balance >= backers[a]) =>
        LET r == refund(Campaign, a, now)
        IN r.err = OK /\ r.paid = backers[a]

\* C2: removeTier(i) fails with TierHasBackers and leaves the tiers as they
\* are whenever tiers[i].backers > 0; called by the owner on a campaign that
\* is not deleted, with i in range and no backers on the tier, it succeeds
\* and removes that tier.
C2_RemoveTierGuard ==
  \A i \in TierIndexes :
    LET r == removeTier(Campaign, owner, i)
    IN IF tiers[i + 1].backers > 0
       THEN r.err = "TierHasBackers" /\ r.c.tiers = tiers
       ELSE ~deleted =>
              /\ r.err = OK
              /\ Len(r.c.tiers) = Len(tiers) - 1
              /\ \A k \in 1..Len(tiers) :
                   Occurrences(r.c.tiers, tiers[k]) =
                     Occurrences(tiers, tiers[k]) - (IF tiers[k] = tiers[i + 1] THEN 1 ELSE 0)

\* C3: on a campaign that is Active, not paused and not deleted, for every
\* caller, tier index in range and payment P, fund succeeds exactly when P is
\* the tier's amount; every other P fails with IncorrectAmount and changes
\* neither the tier's backers counter, the caller's contribution nor the
\* balance.
C3_TierPaymentExactness ==
  (state = Active /\ ~paused /\ ~deleted) =>
    \A sender \in Accounts, i \in TierIndexes, P \in Payments :
      LET r == fund(Campaign, sender, P, i, now)
      IN /\ (r.err = OK) <=> (P = tiers[i + 1].amount)
         /\ (P = tiers[i + 1].amount) =>
              /\ r.c.balance = balance + P
              /\ r.c.backers[sender] = backers[sender] + P
              /\ r.c.tiers[i + 1].backers = tiers[i + 1].backers + 1
         /\ (P # tiers[i + 1].amount) =>
              /\ r.err = IncorrectAmount
              /\ r.c.tiers[i + 1].backers = tiers[i + 1].backers
              /\ r.c.backers[sender] = backers[sender]
              /\ r.c.balance = balance

\* A fund has just succeeded on a campaign that is still open for funding.
C3_Witness ==
  /\ tx.op = "fund"
  /\ state = Active /\ ~paused /\ ~deleted
  /\ \E i \in TierIndexes : tiers[i + 1].backers > 0

\* C4: on a campaign that is not deleted, a refund() that succeeds pays the
\* caller exactly the contribution on record before the call, leaves that
\* record at 0 and every other backer's record as it was, and a refund() by
\* the same caller right after it fails with NoContribution.
C4_RefundConservation ==
  ~deleted =>
    \A B \in Accounts :
      LET r == refund(Campaign, B, now)
      IN r.err = OK =>
           /\ r.paid = backers[B]
           /\ r.paid > 0
           /\ r.c.balance = balance - backers[B]
           /\ r.c.backers[B] = 0
           /\ \A other \in Accounts \ {B} : r.c.backers[other] = backers[other]
           /\ refund(r.c, B, now).err = NoContribution

\* A refund has just been paid while another backer still has a contribution
\* on record.
C4_Witness ==
  /\ tx.op = "refund" /\ tx.paid > 0
  /\ ~deleted
  /\ \E a \in Accounts : backers[a] > 0

\* C5: once the stored state is Successful or Failed, no step sets it back
\* to Active.
C5_NeverBackToActive ==
  [][(state \in {Successful, Failed}) => (state' # Active)]_vars

\* A refund, with its checkAndUpdateCampaign(), has just run on a campaign
\* that was Successful before it (the balance was below the goal when it
\* ran) and whose deadline is still ahead.
C5_Witness ==
  /\ tx.op = "refund"
  /\ state = Successful
  /\ balance + tx.paid < goal
  /\ now < deadline

\* C6 as stated: Successful and Failed are terminal: once the stored state
\* is Successful it stays Successful, and once it is Failed it stays Failed.
C6_TerminalStates ==
  [][/\ (state = Successful) => (state' = Successful)
     /\ (state = Failed) => (state' = Failed)]_vars

\* C6 as amended: Failed is terminal; Successful stays Successful except
\* that the step which sets deleted (deleteCampaign) stores Failed; the state
\* never returns to Active, and once it has left Active, goal and deadline no
\* longer change and deleted is never cleared.
C6_TerminalUpToDelete ==
  [][/\ (state = Failed) => (state' = Failed)
     /\ (state = Successful) =>
          \/ state' = Successful
          \/ state' = Failed /\ ~deleted /\ deleted'
     /\ (state # Active) => (goal' = goal /\ deadline' = deadline)
     /\ deleted => deleted']_vars

\* An emergencyWithdraw has just run on a deleted campaign, whose state was
\* and is Failed.
C6_Witness ==
  /\ tx.op = "emergencyWithdraw"
  /\ deleted
  /\ state = Failed

\* C7: when checkAndUpdateCampaign() runs on an Active campaign, the state
\* becomes Successful whenever balance >= goal, also when the deadline has
\* passed; Failed exactly when the deadline has passed and balance < goal;
\* and it stays Active exactly when the deadline is ahead and balance < goal.
\* This covers the run at the start of withdraw and refund and the run that
\* closes fund, which sees the balance with the payment.
C7_GoalPriority ==
  state = Active =>
    /\ LET s == checkAndUpdateCampaign(Campaign, now).state
       IN /\ (balance >= goal) => (s = Successful)
          /\ (s = Failed) <=> (now >= deadline /\ balance < goal)
          /\ (s = Active) <=> (now < deadline /\ balance < goal)
    /\ \A sender \in Accounts, i \in TierIndexes, P \in Payments :
         LET r == fund(Campaign, sender, P, i, now)
         IN r.err = OK =>
              /\ (balance + P >= goal) => (r.c.state = Successful)
              /\ (r.c.state = Failed) <=> (now >= deadline /\ balance + P < goal)
              /\ (r.c.state = Active) <=> (now < deadline /\ balance + P < goal)

\* A fund, which only an Active campaign accepts, has just reached a positive
\* goal at or after the deadline, and the state is Successful.
C7_Witness ==
  /\ tx.op = "fund"
  /\ now >= deadline
  /\ goal > 0
  /\ balance >= goal
  /\ state = Successful

\* C8: when a fund() that succeeds leaves the balance at goal or above, the
\* stored state is Successful at the end of that call, and a withdraw() by
\* the owner that follows it (at that time or later) succeeds, pays the
\* owner the whole balance and leaves the balance at 0.
C8_ExactGoalSuccess ==
  \A sender \in Accounts, i \in TierIndexes, P \in Payments :
    LET r == fund(Campaign, sender, P, i, now)
    IN (r.err = OK /\ r.c.balance >= r.c.goal) =>
         /\ r.c.state = Successful
         /\ \A later \in {now, now + OneDay} :
              LET w == withdraw(r.c, r.c.owner, later)
              IN /\ w.err = OK
                 /\ w.paid = r.c.balance
                 /\ w.c.balance = 0
                 /\ w.c.state = Successful

\* A fund has just brought the balance to a positive goal before the
\* deadline.
C8_Witness ==
  /\ tx.op = "fund"
  /\ goal > 0
  /\ balance >= goal
  /\ now < deadline
  /\ state = Successful

C10_WithdrawGuards ==
  \A sender \in Accounts :
    LET w == withdraw(Campaign, sender, now)
        s == Resolved(state, balance, goal, now, deadline)
    IN /\ (w.err = OK) <=>
            (sender = owner /\ ~deleted /\ s = Successful /\ balance > 0)
       /\ (w.err = OK) => (w.paid = balance /\ w.c.balance = 0 /\ w.c.state = Successful)
       /\ (sender = owner /\ ~deleted /\ s \in {Active, Failed}) =>
            (w.err = CampaignNotSuccessful)
       /\ (sender = owner /\ ~deleted /\ s = Successful /\ balance = 0) =>
            (w.err = NoBalance)
       /\ (w.err # OK) => (w.c = Campaign)
       /\ LET v == withdraw([Campaign EXCEPT !.paused = ~paused], sender, now)
          IN v.err = w.err /\ v.paid = w.paid

\* A withdraw has just paid out a paused campaign.
C10_Witness ==
  /\ tx.op = "withdraw"
  /\ tx.paid > 0
  /\ paused

\* The record the factory keeps for a campaign address.
Registered(addr) ==
  \E i \in 1..Len(campaigns) : campaigns[i].campaignAddress = addr
RecordOf(addr) ==
  campaigns[CHOOSE i \in 1..Len(campaigns) : campaigns[i].campaignAddress = addr]
Addresses == 1..(MaxCampaigns + 1)

\* C11: deleteCampaignFromFactory(campaignId) fails with NotFound when no
\* record with that campaignId exists and with NotOwner when the caller is
\* not the record's stored creator; called by the stored creator of a
\* registered campaign that is not deleted it succeeds, and the campaign
\* ends with deleted = true and state = Failed.
C11_DeleteFromFactory ==
  \A sender \in Accounts, addr \in Addresses :
    LET r == deleteCampaignFromFactory(Factory, sender, addr)
    IN /\ ~Registered(addr) => (r.err = CampaignNotFound)
       /\ (Registered(addr) /\ sender # RecordOf(addr).owner) =>
            (r.err = NotCampaignOwner)
       /\ (Registered(addr) /\ sender = RecordOf(addr).owner
             /\ ~deployed[addr].deleted) =>
            /\ r.err = OK
            /\ r.f.deployed[addr].deleted
            /\ r.f.deployed[addr].state = Failed

\* Block times, up to a day past the last one the model reaches.
Times == {d * OneDay : d \in 0..(MaxDays + 1)}

\* C12: once deleteCampaign() has succeeded, getCampaignStatus() returns
\* Failed at every later time: right after the owner's delete of any
\* campaign reached, with the state, balance, goal and deadline it has, and
\* in every deleted campaign on the deleted flag alone, whatever state it
\* stores.
C12_DeletedReportsFailed ==
  \A t \in Times :
    (t >= now) =>
      /\ (~deleted) =>
           LET r == deleteCampaign(Campaign, owner)
           IN r.err = OK /\ getCampaignStatus(r.c, t) = Failed
      /\ (deleted) =>
           \A st \in CampaignState :
             getCampaignStatus([Campaign EXCEPT !.state = st], t) = Failed

\* A campaign that had reached its goal before its deadline is deleted.
C12_Witness ==
  /\ deleted
  /\ balance > 0
  /\ balance >= goal
  /\ now < deadline

\* C13: deleteCampaign() succeeds at most once per campaign: the owner's
\* first call sets deleted, no operation clears deleted again, and every
\* later deleteCampaign() call, whoever sends it, fails with AlreadyDeleted
\* and changes nothing.
C13_DeleteOnce ==
  [][/\ (~deleted) =>
          LET r == deleteCampaign(Campaign, owner)
          IN r.err = OK /\ r.c.deleted
     /\ (deleted) => (deleted')
     /\ (deleted) =>
          \A sender \in Accounts :
            LET r == deleteCampaign(Campaign, sender)
            IN r.err = CampaignDeleted /\ r.c = Campaign]_vars

\* C13 as amended: the owner's first call sets deleted, no operation clears
\* it, and every later deleteCampaign() call fails and changes nothing: with
\* AlreadyDeleted when the owner sends it, with NotOwner when anyone else
\* does.
C13_DeleteOnceByOwner ==
  [][/\ (~deleted) =>
          LET r == deleteCampaign(Campaign, owner)
          IN r.err = OK /\ r.c.deleted
     /\ (deleted) => (deleted')
     /\ (deleted) =>
          \A sender \in Accounts :
            LET r == deleteCampaign(Campaign, sender)
            IN /\ r.err = (IF sender = owner THEN CampaignDeleted ELSE NotOwner)
               /\ r.c = Campaign]_vars

\* A deleted campaign on which time has passed since, and on which both
\* kinds of later call are refused.
C13_Witness ==
  /\ deleted
  /\ now > 0
  /\ deleteCampaign(Campaign, owner).err = CampaignDeleted
  /\ \E sender \in Accounts : deleteCampaign(Campaign, sender).err = NotOwner

\* C14: while paused is true every fund() call fails with CampaignPaused
\* and changes nothing; togglePause() twice gives back the campaign as it
\* was, so on an Active campaign that is not deleted a fund() with a valid
\* tier and the exact amount is refused after one togglePause() and succeeds
\* after the second.
C14_PausedBlocksFund ==
  LET once == togglePause(Campaign, owner).c
      twice == togglePause(once, owner).c
  IN /\ once.paused = ~paused
     /\ twice = Campaign
     /\ (paused) =>
          \A sender \in Accounts, value \in Payments, i \in 0..MaxTiers :
            LET r == fund(Campaign, sender, value, i, now)
            IN r.err = CampaignPaused /\ r.c = Campaign
     /\ (~paused /\ state = Active /\ ~deleted) =>
          \A sender \in Accounts, i \in TierIndexes :
            /\ fund(once, sender, tiers[i + 1].amount, i, now).err = CampaignPaused
            /\ fund(twice, sender, tiers[i + 1].amount, i, now).err = OK

\* C14 as amended: while paused is true every fund() call fails and changes
\* nothing, with CampaignPaused when the stored state is Active and with
\* CampaignNotActive when it is Successful or Failed; togglePause() twice
\* gives back the campaign as it was, so on an Active campaign that is not
\* deleted a fund() with a valid tier and the exact amount is refused with
\* CampaignPaused after one togglePause() and succeeds after the second.
C14_PausedActiveBlocksFund ==
  LET once == togglePause(Campaign, owner).c
      twice == togglePause(once, owner).c
  IN /\ once.paused = ~paused
     /\ twice = Campaign
     /\ (paused) =>
          \A sender \in Accounts, value \in Payments, i \in 0..MaxTiers :
            LET r == fund(Campaign, sender, value, i, now)
            IN /\ r.err = (IF state = Active THEN CampaignPaused ELSE CampaignNotActive)
               /\ r.c = Campaign
     /\ (~paused /\ state = Active /\ ~deleted) =>
          \A sender \in Accounts, i \in TierIndexes :
            /\ fund(once, sender, tiers[i + 1].amount, i, now).err = CampaignPaused
            /\ fund(twice, sender, tiers[i + 1].amount, i, now).err = OK

\* A paused Active campaign with a tier and money in it: a fund() with the
\* tier's amount is refused now and accepted after togglePause().
C14_Witness ==
  /\ paused
  /\ state = Active
  /\ ~deleted
  /\ balance > 0
  /\ \E i \in TierIndexes :
       /\ fund(Campaign, owner, tiers[i + 1].amount, i, now).err = CampaignPaused
       /\ fund(togglePause(Campaign, owner).c, owner, tiers[i + 1].amount, i, now).err = OK

\* C15: while the factory's paused flag is true createCampaign fails with
\* RegistryPaused and leaves campaigns, userCampaigns and the deployed
\* campaigns as they are; while it is false createCampaign succeeds; and
\* the flag decides nothing else: deleteCampaignFromFactory, togglePause and
\* the calls of a deployed campaign have the same outcome under either
\* value of the flag.
C15_FactoryPauseBlocksCreationOnly ==
  LET other == [Factory EXCEPT !.paused = ~@]
  IN /\ \A sender \in Accounts, n \in CampaignNames, g \in FactoryGoals, d \in Days :
          LET r == createCampaign(Factory, sender, n, g, d, now)
          IN IF factoryPaused
             THEN r.err = FactoryPaused /\ r.f = Factory
             ELSE r.err = OK /\ Len(r.f.campaigns) = Len(campaigns) + 1
     /\ \A sender \in Accounts, addr \in Addresses :
          LET r == deleteCampaignFromFactory(Factory, sender, addr)
              o == deleteCampaignFromFactory(other, sender, addr)
          IN o.err = r.err /\ o.f.deployed = r.f.deployed
     /\ \A sender \in Accounts :
          factoryTogglePause(other, sender).err = factoryTogglePause(Factory, sender).err
     /\ \A addr \in 1..Len(deployed), sender \in Accounts :
          /\ deleteCampaign(other.deployed[addr], sender) = deleteCampaign(deployed[addr], sender)
          /\ \A g \in FactoryGoals :
               updateCampaignDetails(other.deployed[addr], sender, g)
                 = updateCampaignDetails(deployed[addr], sender, g)

\* A paused factory with a campaign whose owner can still delete it.
C15_Witness ==
  /\ factoryPaused
  /\ Len(campaigns) < MaxCampaigns
  /\ \E addr \in 1..Len(deployed) :
       deleteCampaign(deployed[addr], deployed[addr].owner).err = OK

\* s is the beginning of t.
IsPrefix(s, t) == Len(s) <= Len(t) /\ SubSeq(t, 1, Len(s)) = s

\* The records of campaigns created by a, in the order of campaigns.
CreatedBy(a) == SelectSeq(campaigns, LAMBDA r : r.owner = a)

\* C16: in every reachable state of the factory each record of campaigns
\* is once in the userCampaigns sequence of its creator and in no other
\* account's, each account's sequence is campaigns restricted to that
\* creator in the same order, and every step, togglePause and
\* deleteCampaignFromFactory included, leaves the records it found in place
\* and unaltered: both sequences only grow at the end.
C16_RegistryAppendOnly ==
  /\ [](/\ \A i \in 1..Len(campaigns), a \in Accounts :
             Occurrences(userCampaigns[a], campaigns[i])
               = (IF a = campaigns[i].owner THEN 1 ELSE 0)
        /\ \A a \in Accounts : getUserCampaigns(Factory, a) = CreatedBy(a)
        /\ \A i \in 1..Len(campaigns) : Occurrences(campaigns, campaigns[i]) = 1)
  /\ [][/\ IsPrefix(campaigns, campaigns')
        /\ \A a \in Accounts : IsPrefix(userCampaigns[a], userCampaigns'[a])]_vars

\* Two creators have a campaign each, the first campaign is deleted and the
\* factory is paused.
C16_Witness ==
  /\ Len(campaigns) = 2
  /\ campaigns[1].owner # campaigns[2].owner
  /\ deployed[1].deleted
  /\ factoryPaused

\* C17: in every reachable state every campaign created through the factory
\* has goal > 0 and only tiers with amount > 0.
C17_PositiveGoalAndAmounts ==
  \A addr \in 1..Len(deployed) :
    /\ deployed[addr].goal > 0
    /\ \A i \in 1..Len(deployed[addr].tiers) : deployed[addr].tiers[i].amount > 0

\* C18: createCampaign with goal 0 or duration 0 (the arguments are
\* unsigned) fails, deploys no campaign and appends no record; with a
\* positive goal and duration on a factory that is not paused it deploys a
\* campaign owned by the caller whose deadline is now plus the duration in
\* days, and records it.
C18_CreateValidation ==
  \A sender \in Accounts, n \in CampaignNames, g \in FactoryGoals, d \in Days :
    LET r == createCampaign(Factory, sender, n, g, d, now)
        addr == Len(deployed) + 1
    IN /\ (g = 0 \/ d = 0) => (r.err # OK /\ r.f = Factory)
       /\ (g > 0 /\ d > 0 /\ ~factoryPaused) =>
            /\ r.err = OK
            /\ Len(r.f.deployed) = addr
            /\ r.f.deployed[addr].owner = sender
            /\ r.f.deployed[addr].deadline = now + d * OneDay
            /\ r.f.campaigns = Append(campaigns, CampaignRecord(addr, sender, n, now))

\* Every call of an owner-only function of campaign c by sender is refused
\* with the onlyOwner message and leaves c as it is.
OwnerOnlyRefused(c, sender, t) ==
  LET refused(r) == r.err = NotOwner /\ r.c = c /\ r.paid = 0
  IN /\ refused(withdraw(c, sender, t))
     /\ \A n \in TierNames, a \in Amounts : refused(addTier(c, sender, n, a))
     /\ \A i \in 0..MaxTiers : refused(removeTier(c, sender, i))
     /\ \A g \in Goals : refused(updateCampaignDetails(c, sender, g))
     /\ \A d \in Days : refused(extendDeadline(c, sender, d))
     /\ refused(togglePause(c, sender))
     /\ refused(deleteCampaign(c, sender))
     /\ refused(emergencyWithdraw(c, sender))

\* C19: for a caller other than the campaign's owner, withdraw, addTier,
\* removeTier, updateCampaignDetails, extendDeadline, togglePause,
\* deleteCampaign and emergencyWithdraw fail and change nothing; for a
\* caller other than the factory's owner the factory's togglePause fails
\* and changes nothing; and no step changes the owner of a campaign or of
\* the factory.
C19_OwnerOnly ==
  /\ [](/\ \A sender \in Accounts \ {owner} : OwnerOnlyRefused(Campaign, sender, now)
        /\ \A addr \in 1..Len(deployed) :
             \A sender \in Accounts \ {deployed[addr].owner} :
               OwnerOnlyRefused(deployed[addr], sender, now)
        /\ \A sender \in Accounts \ {factoryOwner} :
             LET r == factoryTogglePause(Factory, sender)
             IN r.err = FactoryNotOwner /\ r.f = Factory)
  /\ [][/\ owner' = owner
        /\ factoryOwner' = factoryOwner
        /\ \A addr \in 1..Len(deployed) : deployed'[addr].owner = deployed[addr].owner]_vars

\* A campaign on which the owner's withdraw would pay out and on which a
\* backer who is not the owner is refused.
C19_Witness ==
  /\ state = Successful
  /\ balance > 0
  /\ tiers # <<>>
  /\ withdraw(Campaign, owner, now).err = OK
  /\ \E sender \in Accounts :
       /\ backers[sender] > 0
       /\ withdraw(Campaign, sender, now).err = NotOwner

\* C20: emergencyWithdraw() called by the owner on a campaign with
\* balance > 0 succeeds whatever the stored state, paused and deleted are,
\* pays the whole balance to the owner, and leaves state, deleted, paused,
\* goal, deadline, tiers and every backer's contribution as they were.
C20_EmergencyWithdrawAlways ==
  (balance > 0) =>
    \A st \in CampaignState, p \in BOOLEAN, d \in BOOLEAN :
      LET c == [Campaign EXCEPT !.state = st, !.paused = p, !.deleted = d]
          r == emergencyWithdraw(c, owner)
          here == emergencyWithdraw(Campaign, owner)
      IN /\ r.err = OK
         /\ r.paid = balance
         /\ r.c = [c EXCEPT !.balance = 0]
         /\ here.err = OK
         /\ here.paid = balance
         /\ here.c = [Campaign EXCEPT !.balance = 0]

\* An emergencyWithdraw has just emptied a deleted, paused campaign whose
\* backers' contributions are still on record.
C20_Witness ==
  /\ tx.op = "emergencyWithdraw"
  /\ tx.paid > 0
  /\ balance = 0
  /\ deleted
  /\ paused
  /\ \E a \in Accounts : backers[a] > 0

\* C21: at every time getCampaignStatus() returns Failed on a deleted
\* campaign and otherwise the state checkAndUpdateCampaign() would store if
\* it ran at that time: Successful for a stored Active with balance >= goal,
\* Failed for a stored Active with balance < goal at or after the deadline,
\* the stored state in every other case.
C21_StatusMatchesResolve ==
  \A t \in Times :
    (t >= now) =>
      getCampaignStatus(Campaign, t)
        = (IF deleted THEN Failed ELSE checkAndUpdateCampaign(Campaign, t).state)

\* C22: fund, updateCampaignDetails and extendDeadline decide on the state
\* that checkAndUpdateCampaign() gives at the time of the call: on a
\* campaign still stored as Active whose deadline has passed with
\* balance < goal, or whose balance already reaches goal, each of them
\* fails with CampaignNotActive.
C22_ResolveBeforePrecondition ==
  (state = Active /\ checkAndUpdateCampaign(Campaign, now).state # Active) =>
    /\ \A sender \in Accounts, i \in TierIndexes :
         fund(Campaign, sender, tiers[i + 1].amount, i, now).err = CampaignNotActive
    /\ \A g \in Goals \ {0} :
         updateCampaignDetails(Campaign, owner, g).err = CampaignNotActive
    /\ \A d \in Days :
         extendDeadline(Campaign, owner, d).err = CampaignNotActive

\* A call of the campaign that fails has changed nothing and paid nothing.
Atomic(c, r) == (r.err # OK) => (r.c = c /\ r.paid = 0)

\* Every call of campaign c at time t that fails leaves c as it was, and a
\* withdraw() or refund() that fails leaves no event in the log.
CampaignCallsAtomic(c, t) ==
  \A sender \in Accounts :
    /\ \A value \in Payments, i \in 0..MaxTiers :
         Atomic(c, fund(c, sender, value, i, t))
    /\ Atomic(c, withdraw(c, sender, t))
    /\ Atomic(c, refund(c, sender, t))
    /\ \A g \in Goals : Atomic(c, updateCampaignDetails(c, sender, g))
    /\ Atomic(c, deleteCampaign(c, sender))
    /\ Atomic(c, emergencyWithdraw(c, sender))
    /\ \A n \in TierNames, a \in Amounts : Atomic(c, addTier(c, sender, n, a))
    /\ \A i \in 0..MaxTiers : Atomic(c, removeTier(c, sender, i))
    /\ Atomic(c, togglePause(c, sender))
    /\ \A d \in Days : Atomic(c, extendDeadline(c, sender, d))
    /\ (withdraw(c, sender, t).err # OK) => (withdrawEvents(c, sender, t) = <<>>)
    /\ (refund(c, sender, t).err # OK) => (refundEvents(c, sender, t) = <<>>)

\* Every call of the factory that fails leaves the factory, and the
\* campaigns it deployed, as they were.
FactoryCallsAtomic(f, t) ==
  \A sender \in Accounts :
    /\ \A n \in CampaignNames, g \in FactoryGoals, d \in Days :
         LET r == createCampaign(f, sender, n, g, d, t)
         IN (r.err # OK) => (r.f = f)
    /\ LET r == factoryTogglePause(f, sender)
       IN (r.err # OK) => (r.f = f)
    /\ \A addr \in Addresses :
         LET r == deleteCampaignFromFactory(f, sender, addr)
         IN (r.err # OK) => (r.f = f)

C24_NoDoubleRefund ==
  /\ \A a \in Accounts :
       /\ refunded[a] <= funded[a]
       /\ refunded[a] + backers[a] = funded[a]
  /\ (frames # <<>> /\ tx.op = "refund") =>
       LET top == frames[Len(frames)]
       IN /\ backers[top.payee] = 0
          /\ refund(Campaign, top.payee, now).err = NoContribution

\* A payee holds control inside the payout of its refund while the campaign
\* still holds another backer's ether.
C24_Witness ==
  /\ frames # <<>>
  /\ tx.op = "refund"
  /\ balance > 0
  /\ refunded[frames[Len(frames)].payee] > 0
  /\ \E a \in Accounts : a # frames[Len(frames)].payee /\ backers[a] > 0

\* C25: the contribution on record for an account a changes in two ways
\* only: a fund() by a that succeeds adds the amount of the funded tier to
\* it, and a refund() by a that succeeds sets it to 0; these two calls leave
\* every other account's record alone, and no other operation changes any
\* record.
C25_ContributionFrame ==
  /\ [](\A a \in Accounts :
          /\ \A i \in TierIndexes :
               LET r == fund(Campaign, a, tiers[i + 1].amount, i, now)
               IN (r.err = OK) =>
                    (r.c.backers = [backers EXCEPT ![a] = @ + tiers[i + 1].amount])
          /\ LET r == refund(Campaign, a, now)
             IN (r.err = OK) => (r.c.backers = [backers EXCEPT ![a] = 0]))
  /\ [][/\ (tx'.op \notin {"fund", "refund"}) => (backers' = backers)
        /\ (tx'.op = "fund") =>
             \E a \in Accounts, i \in TierIndexes :
               backers' = [backers EXCEPT ![a] = @ + tiers[i + 1].amount]
        /\ (tx'.op = "refund") =>
             \E a \in Accounts :
               backers[a] > 0 /\ backers' = [backers EXCEPT ![a] = 0]]_vars

\* A refund has just cleared one account's record while the other account's
\* contribution is still on record.
C25_Witness ==
  /\ tx.op = "refund"
  /\ tx.paid > 0
  /\ \E a \in Accounts : backers[a] = 0
  /\ \E a \in Accounts : backers[a] > 0

C28_SuccessfulFundsRemain ==
  [][(/\ state' = Successful
      /\ (state # Successful \/ balance >= goal)
      /\ tx'.op \notin {"withdraw", "emergencyWithdraw"})
       => (balance' >= goal')]_vars

\* The tiers' backer counts valued at the tiers' amounts.
RECURSIVE TierValue(_)
TierValue(s) ==
  IF s = <<>> THEN 0
  ELSE Head(s).backers * Head(s).amount + TierValue(Tail(s))

\* C30: each tier's backer count is the number of fund() calls made to it
\* whose contribution has not been refunded, so the sum over the tiers of
\* backers * amount equals the sum of all accounts' contributions on record.
C30_BackerCountsMatchContributions ==
  TierValue(tiers) = TotalContributions(Campaign)

\* C29: in every reachable state hasFundedTier(a, i) is true exactly when
\* account a has funded the tier that now sits at index i.
C29_FlagsFollowTiers ==
  \A a \in Accounts, i \in 0..MaxTiers :
    hasFundedTier(fundedTier, a, i) <=> (i < Len(tiers) /\ a \in tierFunders[i + 1])

====
